---- MODULE Spec2Model ----
(***************************************************************************)
(* State-machine model of src/main.py (TAIPOWER portal scraper):           *)
(*   login_and_get_dashboard  - the login attempt loop                     *)
(*   get_login_page, parse_login_form, extract_token, fetch_captcha        *)
(*   ocr_captcha, _clean_text, _variants - local CAPTCHA recognition       *)
(*   solve_captcha_2captcha   - remote solving adapter (upload + polling)  *)
(*   select_meter_no          - meter selection                            *)
(* The variable entry names the function a run starts in: the login loop,  *)
(* or one of the three functions called on its own.  Texts are sequences   *)
(* of one-character strings.  The debug toggles of the configuration       *)
(* (SAVE_LOGIN_HTML, SAVE_LOGIN_RESPONSE, DASHBOARD_DEBUG, METER_DEBUG,    *)
(* CAPTCHA_DEBUG) are at their default, False.                             *)
(***************************************************************************)
EXTENDS Integers, Sequences, FiniteSets, TLC

\* ------------------------------------------------------------------ bounds
\* largest MAX_LOGIN_ATTEMPTS a configuration sets
MaxAttempts == 2
\* number of candidate images _variants yields (207 in the program)
NumVariants == 2
\* longest raw text the recognition engine or the solving service answers
MaxTextLen == 5
\* longest time a poll request of the solving service takes
MaxPollLatency == 1
\* most entries of the meter-list payload's data array
MaxItems == 2

\* ------------------------------------------------------- program constants
\* solve_captcha_2captcha(img, timeout=120)
DEFAULT_TIMEOUT == 120
\* time.sleep(5) between polls
POLL_SLEEP == 5
\* len(cleaned) == 4, len(code) == 4, len(manual) == 4
CODE_LEN == 4
\* resp.status_code >= 400
HTTP_ERROR == 400

\* --------------------------------------------------------------- alphabet
Digits == {"1"}
Letters == {"A"}
Alnum == Digits \cup Letters
Noise == {"-"}
Alphabet == Alnum \cup Noise

\* every text over the alphabet up to MaxTextLen characters
AllTexts == UNION {[1..n -> Alphabet] : n \in 0..MaxTextLen}

\* a few texts, for runs of the whole login loop
ReprTexts ==
    { <<>>, <<"A", "1">>, <<"A", "-", "1", "A", "1">>, <<"1", "1", "A", "A">> }

\* what the operator types at the prompt (EOF is a separate case)
ManualInputs ==
    { <<>>, <<" ", "A", "1", "A", "1", " ">>, <<"A", "-", "1", "A">>, <<"A", "1">> }

\* re.sub(r"[^0-9A-Za-z]", "", text)
_clean_text(text) == SelectSeq(text, LAMBDA c : c \in Alnum)

RECURSIVE LStrip(_)
LStrip(s) == IF s # <<>> /\ Head(s) = " " THEN LStrip(Tail(s)) ELSE s

RECURSIVE RStrip(_)
RStrip(s) ==
    IF s # <<>> /\ s[Len(s)] = " " THEN RStrip(SubSeq(s, 1, Len(s) - 1)) ELSE s

\* str.strip()
Strip(s) == RStrip(LStrip(s))

\* "needle" in text, for a text given as a sequence of fragments
Contains(text, needle) == \E i \in 1..Len(text) : text[i] = needle

\* ---------------------------------------------------- results of a call
Pending == [kind |-> "none", exc |-> "None", msg |-> "", val |-> <<>>]
Return(v) == [kind |-> "return", exc |-> "None", msg |-> "", val |-> v]
Raise(e, m) == [kind |-> "raise", exc |-> e, msg |-> m, val |-> <<>>]

\* ------------------------------------------------------------ URLs (by name)
LOGIN_PAGE_URL == "/hvcs/"
LOGIN_ALT_URL == "/hvcs/SignOn/Module/Login"
DEFAULT_CAPTCHA_SRC == "/hvcs/Other/Module/Chptcha"
DASHBOARD_URL == "/hvcs/Electricity/Module/DashBoard"
UID_METER_URL == "/hvcs/Customer/Module/UIDMeterNoList"
METER_LIST_URL == "/hvcs/Controllers/Members/UserInfo/MeterNoList"

\* get_login_page's urls list
urls == <<LOGIN_PAGE_URL, LOGIN_ALT_URL>>

\* requests.compat.urljoin(base, rel) for a site-absolute or empty rel
urljoin(base, rel) == IF rel = "" THEN base ELSE rel

\* ----------------------------------------------------------- login pages
TOKEN_MARKER == "__RequestVerificationToken"
DASH_MARKER == "card_1"

Page(frags, form, action, flds, src, tok) ==
    [text |-> frags, form |-> form, action |-> action, fields |-> flds,
     captcha_src |-> src, token |-> tok]

Fields1 == ("ReturnUrl" :> "/")
Fields2 == ("Captcha" :> "") @@ ("UserName" :> "") @@ (TOKEN_MARKER :> "t2")

NoPage == Page(<<>>, FALSE, "", Fields1, "", "")

\* pages the portal may answer with: text fragments, whether the form
\* #loginForm is there, its action, its inputs, the src of #captchaImage, and
\* the value of the input named __RequestVerificationToken ("": none)
Pages ==
    { Page(<<"maintenance">>, FALSE, "", Fields1, "", ""),
      Page(<<TOKEN_MARKER>>, FALSE, "", Fields1, "", "t1"),
      Page(<<TOKEN_MARKER>>, TRUE, "", Fields1, "", "t1"),
      Page(<<"script", TOKEN_MARKER>>, TRUE, "/hvcs/SignOn/Login", Fields1, "", ""),
      Page(<<TOKEN_MARKER>>, TRUE, "/hvcs/SignOn/Login", Fields1, "", "t1"),
      Page(<<"head", TOKEN_MARKER>>, TRUE, "/hvcs/SignOn/Login2", Fields2,
           "/hvcs/captcha2", "t2") }

\* answers to a GET of a login URL: the request raised, an HTTP error (whose
\* body may be a page of the site all the same), or a page
PageAnswer(net, http, page) == [net |-> net, http |-> http, page |-> page]
NoPageAnswer == PageAnswer("none", 0, NoPage)
PageAnswers ==
    { PageAnswer("exc", 0, NoPage), PageAnswer("ok", 500, NoPage),
      PageAnswer("ok", 500, Page(<<TOKEN_MARKER>>, TRUE, "/hvcs/SignOn/Login",
                                 Fields1, "", "t1")) }
    \cup { PageAnswer("ok", 200, p) : p \in Pages }

\* dashboard bodies
DashBodies ==
    { <<DASH_MARKER>>, <<"menu", DASH_MARKER>>, <<"login">>, <<>> }

\* ------------------------------------------ answers to the credential POST
\* net: the request raised; json: Content-Type is application/json;
\* shape: what resp.json() gives; status/url: data.Status and data.Url
PostAnswer(net, http, json, shape, status, url) ==
    [net |-> net, http |-> http, json |-> json, shape |-> shape,
     status |-> status, url |-> url]

NoAnswer == PostAnswer("none", 0, FALSE, "none", "None", "")

PostAnswers ==
    { PostAnswer("exc", 0, FALSE, "none", "None", "") }
    \cup { PostAnswer("ok", h, FALSE, "none", "None", "") : h \in {200, 500} }
    \cup { PostAnswer("ok", h, TRUE, "object", s, u) :
             h \in {200, 500}, s \in {"True", "False", "None"}, u \in {"", "/hvcs/Home"} }
    \cup { PostAnswer("ok", 200, TRUE, "unparseable", "None", ""),
           PostAnswer("ok", 200, TRUE, "array", "None", ""),
           PostAnswer("ok", 200, TRUE, "data_not_object", "True", "/hvcs/Home") }

\* ----------------------------------------- answers of the solving service
SvcAnswer(net, http, json, status, has_request, request) ==
    [net |-> net, http |-> http, json |-> json, status |-> status,
     has_request |-> has_request, request |-> request]

NoSvcAnswer == SvcAnswer("none", 0, FALSE, 0, FALSE, <<>>)

NOT_READY == <<"CAPCHA_NOT_READY">>
SVC_ERROR == <<"ERROR_CAPTCHA_UNSOLVABLE">>

UploadAnswers ==
    { SvcAnswer("exc", 0, FALSE, 0, FALSE, <<>>),
      SvcAnswer("ok", 500, FALSE, 0, FALSE, <<>>),
      SvcAnswer("ok", 200, FALSE, 0, FALSE, <<>>),
      SvcAnswer("ok", 200, TRUE, 0, TRUE, <<"ERROR_ZERO_BALANCE">>),
      SvcAnswer("ok", 200, TRUE, 1, FALSE, <<>>),
      SvcAnswer("ok", 200, TRUE, 1, TRUE, <<"id1">>) }

PollAnswers(texts) ==
    { SvcAnswer("exc", 0, FALSE, 0, FALSE, <<>>),
      SvcAnswer("ok", 500, FALSE, 0, FALSE, <<>>),
      SvcAnswer("ok", 200, FALSE, 0, FALSE, <<>>),
      SvcAnswer("ok", 200, TRUE, 0, TRUE, NOT_READY),
      SvcAnswer("ok", 200, TRUE, 0, TRUE, SVC_ERROR),
      SvcAnswer("ok", 200, TRUE, 0, FALSE, <<>>),
      SvcAnswer("ok", 200, TRUE, 1, FALSE, <<>>) }
    \cup { SvcAnswer("ok", 200, TRUE, 1, TRUE, t) : t \in texts }

\* ------------------------------------------------------ meter-list payloads
\* a value read from JSON (the configuration file, the meter-list payload):
\* absent/null, a string s, or an integer n
JsonVal(type, n, s) == [type |-> type, n |-> n, s |-> s]
JNull == JsonVal("none", 0, "")
JStr(s) == JsonVal("str", 0, s)
JInt(n) == JsonVal("int", n, "")

\* Python's truth value of a JSON value ("if not meter_no", line 496;
\* "grouped.get("MeterNo")", line 522)
Truthy(v) == (v.type = "str" /\ v.s # "") \/ (v.type = "int" /\ v.n # 0)

\* str() of a JSON value (line 523); integers are below ten here
DecimalDigits == <<"0", "1", "2", "3", "4", "5", "6", "7", "8", "9">>
str(v) ==
    CASE v.type = "int" -> DecimalDigits[v.n + 1]
      [] v.type = "str" -> v.s
      [] OTHER -> "None"

\* the MeterNo values of a payload
MeterVals == { JNull, JStr(""), JStr("7"), JStr("8"), JInt(0), JInt(7) }

\* the values TAIPOWER_METER_NO may have in the configuration file
ConfiguredMeters == { JStr(""), JStr("0"), JStr("7"), JStr("8"), JInt(0), JInt(7) }

\* an entry of data[]: not an object, an object without (or with a null or
\* empty) UserMeter_GroupbyMeter, or one with that object and its MeterNo
Item(shape, mv) == [shape |-> shape, MeterNo |-> mv]
Items ==
    { Item("nondict", JNull), Item("nogroup", JNull) }
    \cup { Item("group", mv) : mv \in MeterVals }

\* the parsed body: an object whose data is a list of entries, an object
\* whose data is missing or no list, or a JSON value that is no object
Payload(kind, data) == [kind |-> kind, data |-> data]
AllPayloads ==
    { Payload("object", d) : d \in UNION {[1..n -> Items] : n \in 0..MaxItems} }
    \cup { Payload("object_nolist", <<>>), Payload("array", <<>>) }

ReprPayloads ==
    { Payload("object", <<Item("group", JInt(7))>>),
      Payload("object", <<Item("nogroup", JNull), Item("group", JStr("8"))>>),
      Payload("object_nolist", <<>>) }

\* the meter-list response: fmt "json" parses as JSON, "jsdate" parses only
\* once its new Date(n) calls are replaced by n, "garbage" never parses
ListAnswer(net, http, fmt, payload) ==
    [net |-> net, http |-> http, fmt |-> fmt, payload |-> payload]

ListAnswers(payloads) ==
    { ListAnswer("exc", 0, "garbage", Payload("array", <<>>)) }
    \cup { ListAnswer("ok", h, f, p) :
             h \in {200, 500}, f \in {"json", "jsdate"}, p \in payloads }
    \cup { ListAnswer("ok", 200, "garbage", Payload("array", <<>>)) }

NoListAnswer == ListAnswer("none", 0, "garbage", Payload("array", <<>>))

\* ------------------------------------------------------------- the state
VARIABLES
    entry,          \* the function the run starts in
    CONFIG,         \* the loaded configuration (module constants, lines 25-79)
    pc,             \* position in the code
    attempt,        \* login_and_get_dashboard: loop variable
    outcome,        \* how the entry function ended: returned value or raised error
    urlIdx,         \* get_login_page: index into urls
    last_err,       \* get_login_page: last_err
    html,           \* the page get_login_page returned
    pageResp,       \* get_login_page: answer to its latest GET
    loaded,         \* the page get_login_page returned in this attempt
    action_url, fields, captcha_url, token,
    captcha_img, captcha_code,
    codeFor,        \* the challenge the value of captcha_code was obtained for
    resp,           \* answer to the credential POST
    login_ok,
    dash,           \* dash.text
    areqs,          \* portal requests sent in this attempt (or this call), in order
    posts,          \* credential POSTs sent in this attempt
    nPageGets,      \* GETs of the primary login URL in the run
    nAltGets,       \* GETs of the secondary login URL in the run
    nCredPosts,     \* credential POSTs in the run
    everSolved,     \* some attempt's solver result had exactly 4 characters
    slept,          \* time.sleep(1) ran since the attempt started
    ret,            \* result of the last call of a solver or of select_meter_no
    img,            \* the image handed to the solver
    vi, ci,         \* ocr_captcha: position in variants and configs
    calls,          \* ocr_captcha: the engine invocations of this call, in order
    lastText,       \* raw text of the latest answer of the engine or the service
    elapsed,        \* solve_captcha_2captcha: time.time() - start
    nPolls, nSleeps, captcha_id,
    svcResp,        \* solve_captcha_2captcha: latest answer of the service
    viaRemote,      \* the remote adapter was called in this attempt
    meter_no,       \* select_meter_no: its argument
    meter_list,     \* select_meter_no: meter_list
    listResp        \* select_meter_no: answer to the meter-list POST

cfgVars == <<entry, CONFIG>>
pageVars == <<urlIdx, last_err, html>>
formVars == <<action_url, fields, captcha_url, token>>
solveVars == <<captcha_img, captcha_code, codeFor>>
postVars == <<resp, login_ok, posts, nCredPosts>>
countVars == <<nPageGets, nAltGets>>
ocrVars == <<vi, ci, calls>>
remoteVars == <<elapsed, nPolls, nSleeps, captcha_id, svcResp>>
meterVars == <<meter_no, meter_list, listResp>>

vars ==
    <<entry, CONFIG, pc, attempt, outcome, urlIdx, last_err, html, pageResp, loaded,
      action_url, fields, captcha_url, token, captcha_img, captcha_code, codeFor,
      resp, login_ok,
      dash, areqs, posts, nPageGets, nAltGets, nCredPosts, everSolved, slept,
      ret, img, vi, ci, calls, lastText, elapsed, nPolls, nSleeps, captcha_id,
      svcResp, viaRemote, meter_no, meter_list, listResp>>

\* the module constants read from CONFIG (lines 53-60, 75)
USE_2CAPTCHA == CONFIG.USE_2CAPTCHA
CAPTCHA_2CAPTCHA_API_KEY == CONFIG.CAPTCHA_2CAPTCHA_API_KEY
USERNAME == CONFIG.USERNAME
PASSWORD == CONFIG.PASSWORD
METER_NO == CONFIG.METER_NO
MAX_LOGIN_ATTEMPTS == CONFIG.MAX_LOGIN_ATTEMPTS
CAPTCHA_MANUAL == CONFIG.CAPTCHA_MANUAL

Config(use, manual, key, user, pwd, meter, max) ==
    [USE_2CAPTCHA |-> use, CAPTCHA_MANUAL |-> manual,
     CAPTCHA_2CAPTCHA_API_KEY |-> key, USERNAME |-> user, PASSWORD |-> pwd,
     METER_NO |-> meter, MAX_LOGIN_ATTEMPTS |-> max]

\* configurations of a login run
LoginConfigs ==
    { Config(use, manual, key, c[1], c[2], meter, max) :
        use \in BOOLEAN, manual \in BOOLEAN, key \in {"", "key"},
        c \in {<<"user", "pw">>, <<"", "pw">>, <<"user", "">>},
        meter \in {JStr(""), JStr("7")}, max \in 0..MaxAttempts }

\* configurations of a call of solve_captcha_2captcha on its own
RemoteConfigs ==
    { Config(TRUE, FALSE, key, "user", "pw", JStr(""), 1) : key \in {"", "key"} }

\* configuration of a call of ocr_captcha or select_meter_no on its own
PlainConfig == Config(FALSE, FALSE, "", "user", "pw", JStr(""), 1)

NoImage == [id |-> 0, url |-> ""]
Req(method, url, arg) == [method |-> method, url |-> url, arg |-> arg]

\* texts the recognition engine and the solving service may answer
EngineTexts == IF entry = "login" THEN ReprTexts ELSE AllTexts
ListPayloads == IF entry = "login" THEN ReprPayloads ELSE AllPayloads
PollLatencies == IF entry = "login" THEN {0} ELSE 0..MaxPollLatency

Init ==
    /\ entry \in {"login", "ocr", "remote", "meter"}
    /\ CONFIG \in CASE entry = "login" -> LoginConfigs
                    [] entry = "remote" -> RemoteConfigs
                    [] OTHER -> {PlainConfig}
    /\ pc = CASE entry = "login" -> "start"
              [] entry = "ocr" -> "o_call"
              [] entry = "remote" -> "r_key"
              [] OTHER -> "m_entry"
    /\ attempt = 0
    /\ outcome = Pending
    /\ urlIdx = 1
    /\ last_err = "None"
    /\ html = NoPage
    /\ pageResp = NoPageAnswer
    /\ loaded = NoPage
    /\ action_url = ""
    /\ fields = Fields1
    /\ captcha_url = ""
    /\ token = ""
    /\ captcha_img = NoImage
    /\ captcha_code = <<>>
    /\ codeFor = 0
    /\ resp = NoAnswer
    /\ login_ok = FALSE
    /\ dash = <<>>
    /\ areqs = <<>>
    /\ posts = <<>>
    /\ nPageGets = 0
    /\ nAltGets = 0
    /\ nCredPosts = 0
    /\ everSolved = FALSE
    /\ slept = FALSE
    /\ ret = Pending
    /\ img = IF entry \in {"ocr", "remote"} THEN [id |-> 1, url |-> ""] ELSE NoImage
    /\ vi = 1
    /\ ci = 1
    /\ calls = <<>>
    /\ lastText = <<>>
    /\ elapsed = 0
    /\ nPolls = 0
    /\ nSleeps = 0
    /\ captcha_id = <<>>
    /\ svcResp = NoSvcAnswer
    /\ viaRemote = FALSE
    /\ meter_no \in IF entry = "meter" THEN ConfiguredMeters ELSE {JStr("")}
    /\ meter_list = <<>>
    /\ listResp = NoListAnswer

\* the entry function ends: a sub-call's result is the run's outcome
Finish(r) == /\ outcome' = r
             /\ pc' = "done"

\* the locals of a call are gone once the login loop has its result
DropOcrFrame ==
    /\ vi' = 1
    /\ ci' = 1
    /\ calls' = <<>>
    /\ lastText' = <<>>

DropRemoteFrame ==
    /\ elapsed' = 0
    /\ nPolls' = 0
    /\ nSleeps' = 0
    /\ captcha_id' = <<>>
    /\ svcResp' = NoSvcAnswer

DropMeterFrame ==
    /\ meter_no' = JStr("")
    /\ meter_list' = <<>>
    /\ listResp' = NoListAnswer

\* a call of a solver or of select_meter_no ends with r: back to the login
\* loop at retpc, or, when the function was the entry, the run is over
CallEnds(r, retpc) ==
    /\ ret' = r
    /\ IF entry = "login"
         THEN pc' = retpc /\ UNCHANGED outcome
         ELSE Finish(r)

\* ============================================================ get_login_page
\* a page test that takes any body for the login page
HasTokenMarker_Always(page) == TRUE

\* "__RequestVerificationToken" in resp.text (line 96)
HasTokenMarker(page) == Contains(page.text, TOKEN_MARKER)

\* one iteration of "for url in urls" (lines 92-100)
GetLoginPage ==
    /\ pc = "get_page"
    /\ \E a \in PageAnswers :
         /\ pageResp' = a
         /\ areqs' = Append(areqs, Req("GET", urls[urlIdx], ""))
         /\ IF urlIdx = 1
              THEN nPageGets' = nPageGets + 1 /\ UNCHANGED nAltGets
              ELSE nAltGets' = nAltGets + 1 /\ UNCHANGED nPageGets
         /\ IF a.net = "ok" /\ a.http < HTTP_ERROR /\ HasTokenMarker(a.page)
              THEN /\ html' = a.page
                   /\ loaded' = a.page
                   /\ pc' = "parse"
                   /\ UNCHANGED <<urlIdx, last_err>>
              ELSE /\ last_err' = IF a.net = "exc" \/ a.http >= HTTP_ERROR
                                    THEN "RequestException" ELSE last_err
                   /\ IF urlIdx < Len(urls)
                        THEN urlIdx' = urlIdx + 1 /\ pc' = "get_page"
                        ELSE urlIdx' = urlIdx /\ pc' = "page_fail"
                   /\ UNCHANGED <<html, loaded>>
    /\ UNCHANGED <<cfgVars, attempt, outcome, formVars, solveVars, postVars, dash,
                   everSolved, slept, ret, img, ocrVars, lastText, remoteVars, viaRemote,
                   meterVars>>

\* no url gave the page (lines 102-104)
GetLoginPageFails ==
    /\ pc = "page_fail"
    /\ Finish(IF last_err # "None"
                THEN Raise(last_err, "request failed")
                ELSE Raise("LoginError", "Unable to load login page"))
    /\ UNCHANGED <<cfgVars, pageResp, loaded, attempt, pageVars, formVars, solveVars, postVars, dash,
                   areqs, countVars, everSolved, slept, ret, img, ocrVars, lastText,
                   remoteVars, viaRemote, meterVars>>

\* ===================================== parse_login_form and extract_token
\* a parser that does not look at the form's action
ParseFormError_NoActionCheck(page) ==
    IF ~page.form THEN "Login form not found" ELSE ""

\* parse_login_form(html) (lines 107-133): an error message, or "" when it
\* returns
ParseFormError(page) ==
    IF ~page.form THEN "Login form not found"
    ELSE IF page.action = "" THEN "Login form action not found"
    ELSE ""

\* the captcha URL parse_login_form returns (lines 124-132)
CaptchaUrl(page) ==
    urljoin(LOGIN_PAGE_URL,
            IF page.captcha_src = "" THEN DEFAULT_CAPTCHA_SRC ELSE page.captcha_src)

\* a token that is extracted once and kept for the later iterations
extract_token_KeepsFirst(page) == IF token # "" THEN token ELSE page.token

\* extract_token(html) (lines 136-141): "" stands for the raised LoginError
extract_token(page) == page.token

\* lines 267-268 of login_and_get_dashboard
ParseLoginPage ==
    /\ pc = "parse"
    /\ IF ParseFormError(html) # ""
         THEN /\ Finish(Raise("LoginError", ParseFormError(html)))
              /\ UNCHANGED formVars
         ELSE IF extract_token(html) = ""
         THEN /\ Finish(Raise("LoginError",
                              "Missing __RequestVerificationToken on login page"))
              /\ action_url' = urljoin(LOGIN_PAGE_URL, html.action)
              /\ fields' = html.fields
              /\ captcha_url' = CaptchaUrl(html)
              /\ UNCHANGED token
         ELSE /\ action_url' = urljoin(LOGIN_PAGE_URL, html.action)
              /\ fields' = html.fields
              /\ captcha_url' = CaptchaUrl(html)
              /\ token' = extract_token(html)
              /\ pc' = "fetch_captcha"
              /\ UNCHANGED outcome
    /\ pageResp' = NoPageAnswer
    /\ UNCHANGED <<cfgVars, loaded, attempt, pageVars, solveVars, postVars, dash, areqs,
                   countVars, everSolved, slept, ret, img, ocrVars, lastText, remoteVars,
                   viaRemote, meterVars>>

\* ============================================================= fetch_captcha
\* line 270 and lines 144-147: the GET raises, the body is no image, or the
\* challenge image of this attempt is returned
FetchCaptcha ==
    /\ pc = "fetch_captcha"
    /\ areqs' = Append(areqs, Req("GET", captcha_url, ""))
    /\ \E a \in {"ok", "exc", "not_an_image"} :
         CASE a = "exc" ->
                /\ Finish(Raise("RequestException", "captcha request failed"))
                /\ UNCHANGED captcha_img
           [] a = "not_an_image" ->
                /\ Finish(Raise("OSError", "cannot identify image file"))
                /\ UNCHANGED captcha_img
           [] OTHER ->
                /\ captcha_img' = [id |-> attempt, url |-> captcha_url]
                /\ pc' = "solve"
                /\ UNCHANGED outcome
    /\ UNCHANGED <<cfgVars, pageResp, loaded, attempt, pageVars, formVars, captcha_code, codeFor,
                   postVars,
                   dash, countVars, everSolved, slept, ret, img, ocrVars, lastText,
                   remoteVars, viaRemote, meterVars>>

\* ================================================================ ocr_captcha
\* the recognition profiles, in order (lines 241-246)
configs == <<"psm 8", "psm 7", "psm 6", "psm 10">>

\* _variants(img) (lines 155-180): the candidate images, in generation order
_variants(image) == [i \in 1..NumVariants |-> [of |-> image.id, idx |-> i]]

\* a length test that lets longer answers through
Accepted_AtLeast(cleaned) == Len(cleaned) >= CODE_LEN

\* len(cleaned) == 4 (lines 231, 251)
Accepted(cleaned) == Len(cleaned) = CODE_LEN

\* what an instrumented engine records of an invocation: the pair, and the raw
\* text when it holds exactly four characters of [0-9A-Za-z]
AlnumCount(text) == Cardinality({i \in 1..Len(text) : text[i] \in Alnum})
Call(v, c, text) ==
    [variant |-> v, config |-> c,
     four |-> IF AlnumCount(text) = CODE_LEN THEN text ELSE <<>>]

\* the nested loops "for variant in _variants(img): for config in configs"
\* (lines 247-248): whether a pair follows (v, c), and which
HasNextPair(v, c) == c < Len(configs) \/ v < NumVariants
\* the two loops nested the other way round
NextPair_VariantsInner(v, c) == IF v < NumVariants THEN <<v + 1, c>> ELSE <<1, c + 1>>
NextPair(v, c) == IF c < Len(configs) THEN <<v, c + 1>> ELSE <<v + 1, 1>>

\* one pass of the inner loop body (lines 247-253): the engine is invoked on
\* (variants[vi], configs[ci]) and answers some text
OcrInvoke ==
    /\ pc = "o_call"
    /\ \E text \in EngineTexts :
         LET cleaned == _clean_text(text) IN
         /\ calls' = Append(calls, Call(_variants(img)[vi], configs[ci], text))
         /\ lastText' = text
         /\ IF Accepted(cleaned)
              THEN /\ CallEnds(Return(cleaned), "ocr_ret")
                   /\ UNCHANGED <<vi, ci>>
              ELSE IF HasNextPair(vi, ci)
              THEN /\ vi' = NextPair(vi, ci)[1]
                   /\ ci' = NextPair(vi, ci)[2]
                   /\ UNCHANGED <<pc, ret, outcome>>
              ELSE /\ CallEnds(Return(<<>>), "ocr_ret")
                   /\ UNCHANGED <<vi, ci>>
    /\ UNCHANGED <<cfgVars, pageResp, loaded, attempt, pageVars, formVars, solveVars, postVars, dash,
                   areqs, countVars, everSolved, slept, img, remoteVars, viaRemote,
                   meterVars>>

\* ===================================================== solve_captcha_2captcha
\* lines 186-187
RemoteCheckKey ==
    /\ pc = "r_key"
    /\ IF CAPTCHA_2CAPTCHA_API_KEY = ""
         THEN CallEnds(Raise("LoginError", "2Captcha API key not set"), "remote_ret")
         ELSE pc' = "r_upload" /\ UNCHANGED <<ret, outcome>>
    /\ UNCHANGED <<cfgVars, pageResp, loaded, attempt, pageVars, formVars, solveVars, postVars, dash,
                   areqs, countVars, everSolved, slept, img, ocrVars, lastText, remoteVars,
                   viaRemote, meterVars>>

\* what an answer of the solving service makes the code raise before it reads
\* the status (lines 194-205, 216-227): "" when it raises nothing
SvcTransportError(a) ==
    IF a.net = "exc" THEN "RequestException"
    ELSE IF a.http >= HTTP_ERROR THEN "RequestException"
    ELSE IF ~a.json THEN "ValueError"
    ELSE ""

\* lines 189-213: upload, then start = time.time()
RemoteUpload ==
    /\ pc = "r_upload"
    /\ \E a \in UploadAnswers :
         /\ svcResp' = a
         /\ IF SvcTransportError(a) # ""
              THEN /\ CallEnds(Raise(SvcTransportError(a), "upload"), "remote_ret")
                   /\ UNCHANGED <<captcha_id, elapsed>>
            ELSE IF a.status # 1
              THEN /\ CallEnds(Raise("LoginError", "2Captcha upload failed"),
                               "remote_ret")
                   /\ UNCHANGED <<captcha_id, elapsed>>
            ELSE IF ~a.has_request
              THEN /\ CallEnds(Raise("KeyError", "request"), "remote_ret")
                   /\ UNCHANGED <<captcha_id, elapsed>>
            ELSE /\ captcha_id' = a.request
                 /\ elapsed' = 0
                 /\ pc' = "r_while"
                 /\ UNCHANGED <<ret, outcome>>
    /\ UNCHANGED <<cfgVars, pageResp, loaded, attempt, pageVars, formVars, solveVars, postVars, dash,
                   areqs, countVars, everSolved, slept, img, ocrVars, lastText, nPolls,
                   nSleeps, viaRemote, meterVars>>

\* a loop test that still polls at the timeout itself
WithinTimeout_Inclusive(t) == t <= DEFAULT_TIMEOUT

\* time.time() - start < timeout (line 214)
WithinTimeout(t) == t < DEFAULT_TIMEOUT

\* the loop test, and line 238 when it fails
RemoteLoopTest ==
    /\ pc = "r_while"
    /\ IF WithinTimeout(elapsed)
         THEN pc' = "r_sleep" /\ UNCHANGED <<ret, outcome>>
         ELSE CallEnds(Raise("LoginError", "2Captcha timeout"), "remote_ret")
    /\ UNCHANGED <<cfgVars, pageResp, loaded, attempt, pageVars, formVars, solveVars, postVars, dash,
                   areqs, countVars, everSolved, slept, img, ocrVars, lastText, remoteVars,
                   viaRemote, meterVars>>

\* time.sleep(5) (line 215)
RemoteSleep ==
    /\ pc = "r_sleep"
    /\ elapsed' = elapsed + POLL_SLEEP
    /\ nSleeps' = nSleeps + 1
    /\ pc' = "r_poll"
    /\ UNCHANGED <<cfgVars, pageResp, loaded, attempt, outcome, pageVars, formVars, solveVars,
                   postVars, dash, areqs, countVars, everSolved, slept, ret, img,
                   ocrVars, lastText, nPolls, captcha_id, svcResp, viaRemote,
                   meterVars>>

\* the code returned for a poll answer with status 1 (lines 229-233)
RemoteCode(request) ==
    IF Accepted(_clean_text(request)) THEN _clean_text(request) ELSE <<>>

\* a test that takes every answer without success for "not ready"
IsNotReady_AnyFailure(a) == TRUE

\* data.get("request") == "CAPCHA_NOT_READY" (line 235)
IsNotReady(a) == a.request = NOT_READY

\* one poll (lines 216-236); the request takes d time units
RemotePoll ==
    /\ pc = "r_poll"
    /\ nPolls' = nPolls + 1
    /\ \E a \in PollAnswers(EngineTexts), d \in PollLatencies :
         /\ elapsed' = elapsed + d
         /\ svcResp' = a
         /\ lastText' = a.request
         /\ IF SvcTransportError(a) # ""
              THEN CallEnds(Raise(SvcTransportError(a), "poll"), "remote_ret")
            ELSE IF a.status = 1
              THEN CallEnds(Return(RemoteCode(a.request)), "remote_ret")
            ELSE IF ~IsNotReady(a)
              THEN CallEnds(Raise("LoginError", "2Captcha error"), "remote_ret")
            ELSE pc' = "r_while" /\ UNCHANGED <<ret, outcome>>
    /\ UNCHANGED <<cfgVars, pageResp, loaded, attempt, pageVars, formVars, solveVars, postVars, dash,
                   areqs, countVars, everSolved, slept, img, ocrVars, nSleeps,
                   captcha_id, viaRemote, meterVars>>

\* ============================================================ select_meter_no
\* lines 496-497
SelectMeterEntry ==
    /\ pc = "m_entry"
    /\ IF ~Truthy(meter_no)
         THEN CallEnds(Return(<<>>), "meter_ret")
         ELSE pc' = "m_list" /\ UNCHANGED <<ret, outcome>>
    /\ UNCHANGED <<cfgVars, pageResp, loaded, attempt, pageVars, formVars, solveVars, postVars, dash,
                   areqs, countVars, everSolved, slept, img, ocrVars, lastText, remoteVars,
                   viaRemote, meterVars>>

\* resp.json(), then json.loads of the text with new Date(n) replaced by n
\* (lines 507-517): whether a payload comes out
ParsesAsJson(a) == a.fmt = "json"
ParsesOnceCleaned(a) == a.fmt \in {"json", "jsdate"}

\* grouped and grouped.get("MeterNo") (lines 521-522)
HasMeterNo(item) ==
    /\ item.shape = "group"
    /\ Truthy(item.MeterNo)

\* meter_list (lines 518-523)
RECURSIVE MeterListOf(_)
MeterListOf(data) ==
    IF data = <<>> THEN <<>>
    ELSE IF HasMeterNo(Head(data))
      THEN <<str(Head(data).MeterNo)>> \o MeterListOf(Tail(data))
      ELSE MeterListOf(Tail(data))

\* meter_no in meter_list (line 524): meter_no equals an element, and a
\* value that is no string equals none of these strings
InMeterList(m, list) == \E i \in 1..Len(list) : m.type = "str" /\ list[i] = m.s

\* lines 498-525: the meter-list POST and the search of its payload
MeterListRequest ==
    /\ pc = "m_list"
    /\ areqs' = Append(areqs, Req("POST", METER_LIST_URL, ""))
    /\ \E a \in ListAnswers(ListPayloads) :
         /\ listResp' = a
         /\ IF a.net = "exc"
              THEN /\ CallEnds(Raise("RequestException", "meter list"), "meter_ret")
                   /\ UNCHANGED meter_list
            ELSE IF a.http >= HTTP_ERROR
              THEN /\ CallEnds(Raise("LoginError", "Meter list request failed"),
                               "meter_ret")
                   /\ UNCHANGED meter_list
            ELSE IF ~ParsesAsJson(a) /\ ~ParsesOnceCleaned(a)
              THEN /\ CallEnds(Raise("LoginError", "Meter list response is not JSON"),
                               "meter_ret")
                   /\ UNCHANGED meter_list
            ELSE IF a.payload.kind = "array"
              THEN /\ CallEnds(Raise("AttributeError", "get"), "meter_ret")
                   /\ UNCHANGED meter_list
            ELSE LET data == IF a.payload.kind = "object" THEN a.payload.data ELSE <<>>
                     list == MeterListOf(data)
                 IN /\ meter_list' = list
                    /\ IF InMeterList(meter_no, list)
                         THEN pc' = "m_post" /\ UNCHANGED <<ret, outcome>>
                         ELSE CallEnds(Raise("LoginError", "MeterNo not found in account list"),
                                       "meter_ret")
    /\ UNCHANGED <<cfgVars, pageResp, loaded, attempt, pageVars, formVars, solveVars, postVars, dash,
                   countVars, everSolved, slept, img, ocrVars, lastText, remoteVars,
                   viaRemote, meter_no>>

\* the switch POST (lines 526-531)
MeterSwitchPost ==
    /\ pc = "m_post"
    /\ areqs' = Append(areqs, Req("POST", UID_METER_URL, str(meter_no)))
    /\ \E net \in {"ok", "exc"} :
         IF net = "exc"
           THEN CallEnds(Raise("RequestException", "meter switch POST"), "meter_ret")
           ELSE pc' = "m_get" /\ UNCHANGED <<ret, outcome>>
    /\ UNCHANGED <<cfgVars, pageResp, loaded, attempt, pageVars, formVars, solveVars, postVars, dash,
                   countVars, everSolved, slept, img, ocrVars, lastText, remoteVars,
                   viaRemote, meterVars>>

\* the switch GET (lines 532-537)
MeterSwitchGet ==
    /\ pc = "m_get"
    /\ areqs' = Append(areqs, Req("GET", UID_METER_URL, str(meter_no)))
    /\ \E net \in {"ok", "exc"} :
         IF net = "exc"
           THEN CallEnds(Raise("RequestException", "meter switch GET"), "meter_ret")
           ELSE CallEnds(Return(<<>>), "meter_ret")
    /\ UNCHANGED <<cfgVars, pageResp, loaded, attempt, pageVars, formVars, solveVars, postVars, dash,
                   countVars, everSolved, slept, img, ocrVars, lastText, remoteVars,
                   viaRemote, meterVars>>

\* ==================================================== login_and_get_dashboard
\* lines 257-258
CheckCredentials ==
    /\ pc = "start"
    /\ IF USERNAME = "" \/ PASSWORD = ""
         THEN Finish(Raise("LoginError", "TAIPOWER_USERNAME or TAIPOWER_PASSWORD not set"))
         ELSE pc' = "loop" /\ UNCHANGED outcome
    /\ UNCHANGED <<cfgVars, pageResp, loaded, attempt, pageVars, formVars, solveVars, postVars, dash,
                   areqs, countVars, everSolved, slept, ret, img, ocrVars, lastText,
                   remoteVars, viaRemote, meterVars>>

\* a loop bound that is off by one
HasNextAttempt_OffByOne(a) == a <= MAX_LOGIN_ATTEMPTS

\* attempt in range(1, MAX_LOGIN_ATTEMPTS + 1) has a next value (line 260)
HasNextAttempt(a) == a < MAX_LOGIN_ATTEMPTS

\* the loop starts its next iteration (lines 260-262).  The locals a
\* credential POST is built from (html, action_url, fields, captcha_url,
\* token, captcha_img, captcha_code) keep the values the previous iteration
\* left, as Python keeps them; resp and dash are never part of a request and
\* are assigned before they are read, so their old values are dropped here
\* with the records of the attempt's requests.
ForAttempt ==
    /\ pc = "loop"
    /\ HasNextAttempt(attempt)
    /\ attempt' = attempt + 1
    /\ login_ok' = FALSE
    /\ pc' = "get_page"
    /\ urlIdx' = 1
    /\ last_err' = "None"
    /\ pageResp' = NoPageAnswer
    /\ loaded' = NoPage
    /\ resp' = NoAnswer
    /\ dash' = <<>>
    /\ areqs' = <<>>
    /\ posts' = <<>>
    /\ slept' = FALSE
    /\ ret' = Pending
    /\ img' = NoImage
    /\ DropOcrFrame
    /\ DropRemoteFrame
    /\ DropMeterFrame
    /\ viaRemote' = FALSE
    /\ UNCHANGED <<cfgVars, outcome, html, formVars, solveVars, countVars, nCredPosts,
                   everSolved>>

\* the loop is over (line 370)
RaiseExhausted ==
    /\ pc = "loop"
    /\ ~HasNextAttempt(attempt)
    /\ Finish(Raise("LoginError", "Login failed after multiple attempts"))
    /\ UNCHANGED <<cfgVars, pageResp, loaded, attempt, pageVars, formVars, solveVars, postVars, dash,
                   areqs, countVars, everSolved, slept, ret, img, ocrVars, lastText,
                   remoteVars, viaRemote, meterVars>>

\* lines 272-275 and 278-280: the solver chosen by USE_2CAPTCHA is called on
\* the challenge image
SolveCaptcha ==
    /\ pc = "solve"
    /\ img' = captcha_img
    /\ IF USE_2CAPTCHA
         THEN pc' = "r_key" /\ viaRemote' = TRUE
         ELSE pc' = "o_call" /\ UNCHANGED viaRemote
    /\ UNCHANGED <<cfgVars, pageResp, loaded, attempt, outcome, pageVars, formVars, solveVars,
                   postVars, dash, areqs, countVars, everSolved, slept, ret,
                   ocrVars, lastText, remoteVars, meterVars>>

\* a handler that catches the adapter's own error class only
CatchesException_OnlyLoginError(exc) == exc = "LoginError"

\* the classes "except Exception" catches (line 276)
CatchesException(exc) ==
    exc \in {"LoginError", "RequestException", "ValueError", "KeyError",
             "AttributeError", "OSError"}

\* solve_captcha_2captcha is back (lines 275-277): its code is taken, or its
\* exception is caught and ocr_captcha is called on the same image
RemoteReturns ==
    /\ pc = "remote_ret"
    /\ IF ret.kind = "return"
         THEN /\ captcha_code' = ret.val
              /\ codeFor' = img.id
              /\ everSolved' = (everSolved \/ Len(ret.val) = CODE_LEN)
              /\ pc' = "submit"
              /\ UNCHANGED <<outcome, img>>
         ELSE IF CatchesException(ret.exc)
         THEN /\ img' = captcha_img
              /\ pc' = "o_call"
              /\ UNCHANGED <<outcome, captcha_code, codeFor, everSolved>>
         ELSE /\ Finish(ret)
              /\ UNCHANGED <<captcha_code, codeFor, everSolved, img>>
    /\ DropRemoteFrame
    /\ lastText' = <<>>
    /\ UNCHANGED <<cfgVars, pageResp, loaded, attempt, pageVars, formVars, captcha_img, postVars,
                   dash, areqs, countVars, slept, ret, ocrVars, viaRemote,
                   meterVars>>

\* ocr_captcha is back (lines 277, 280)
OcrReturns ==
    /\ pc = "ocr_ret"
    /\ captcha_code' = ret.val
    /\ codeFor' = img.id
    /\ everSolved' = (everSolved \/ Len(ret.val) = CODE_LEN)
    /\ pc' = IF USE_2CAPTCHA THEN "submit" ELSE "decide"
    /\ DropOcrFrame
    /\ UNCHANGED <<cfgVars, pageResp, loaded, attempt, outcome, pageVars, formVars, captcha_img,
                   postVars, dash, areqs, countVars, slept, ret, img, remoteVars,
                   viaRemote, meterVars>>

\* lines 282-288: the operator is prompted and types a line
ManualEntry ==
    /\ pc = "decide"
    /\ CAPTCHA_MANUAL
    /\ \E typed \in ManualInputs :
         LET manual == Strip(typed) IN
         IF Len(manual) = CODE_LEN
           THEN captcha_code' = manual /\ codeFor' = attempt /\ pc' = "submit"
           ELSE pc' = "loop" /\ UNCHANGED <<captcha_code, codeFor>>
    /\ UNCHANGED <<cfgVars, pageResp, loaded, attempt, outcome, pageVars, formVars, captcha_img,
                   postVars, dash, areqs, countVars, everSolved, slept, ret, img,
                   ocrVars, lastText, remoteVars, viaRemote, meterVars>>

\* lines 289-290: input() raises EOFError
ManualEOF ==
    /\ pc = "decide"
    /\ CAPTCHA_MANUAL
    /\ pc' = "loop"
    /\ UNCHANGED <<cfgVars, pageResp, loaded, attempt, outcome, pageVars, formVars, solveVars,
                   postVars, dash, areqs, countVars, everSolved, slept, ret, img,
                   ocrVars, lastText, remoteVars, viaRemote, meterVars>>

\* where the local-only branch goes with manual entry off (lines 291-294): the
\* continue of line 294 is outside the if of line 292
AfterLocalSolve(code) == "loop"

LocalWithoutManual ==
    /\ pc = "decide"
    /\ ~CAPTCHA_MANUAL
    /\ pc' = AfterLocalSolve(captcha_code)
    /\ UNCHANGED <<cfgVars, pageResp, loaded, attempt, outcome, pageVars, formVars, solveVars,
                   postVars, dash, areqs, countVars, everSolved, slept, ret, img,
                   ocrVars, lastText, remoteVars, viaRemote, meterVars>>

\* payload (lines 296-304): the form's inputs, overridden by the four keys
CredentialPayload ==
    (TOKEN_MARKER :> token) @@ ("UserName" :> USERNAME)
      @@ ("UserPwd" :> PASSWORD) @@ ("Captcha" :> captcha_code) @@ fields

\* the credential POST (lines 296-313)
SubmitCredentials ==
    /\ pc = "submit"
    /\ areqs' = Append(areqs, Req("POST", action_url, ""))
    /\ posts' = Append(posts, [url |-> action_url, data |-> CredentialPayload,
                               header |-> token, referer |-> LOGIN_PAGE_URL])
    /\ nCredPosts' = nCredPosts + 1
    /\ \E a \in PostAnswers :
         IF a.net = "exc"
           THEN /\ Finish(Raise("RequestException", "credential POST"))
                /\ UNCHANGED resp
           ELSE /\ resp' = a
                /\ pc' = "interpret"
                /\ UNCHANGED outcome
    /\ UNCHANGED <<cfgVars, pageResp, loaded, attempt, pageVars, formVars, solveVars, login_ok, dash,
                   countVars, everSolved, slept, ret, img, ocrVars, lastText, remoteVars,
                   viaRemote, meterVars>>

\* data_block (lines 322-330)
DataBlock(r) ==
    IF r.shape = "object"
      THEN [Status |-> r.status, Url |-> r.url]
      ELSE [Status |-> "None", Url |-> ""]

\* login_ok after lines 320-345
LoginOk(r) ==
    IF r.json THEN DataBlock(r).Status = "True" ELSE r.http < HTTP_ERROR

\* the redirect is followed (line 336)
NeedsRedirect(r) ==
    r.json /\ DataBlock(r).Status = "True" /\ DataBlock(r).Url # ""

\* lines 314-345, up to the redirect GET
InterpretResult ==
    /\ pc = "interpret"
    /\ IF resp.json /\ resp.shape = "array"
         THEN Finish(Raise("AttributeError", "get")) /\ UNCHANGED login_ok
         ELSE /\ login_ok' = LoginOk(resp)
              /\ pc' = IF NeedsRedirect(resp) THEN "redirect" ELSE "meter_gate"
              /\ UNCHANGED outcome
    /\ UNCHANGED <<cfgVars, pageResp, loaded, attempt, pageVars, formVars, solveVars, resp, posts,
                   nCredPosts, dash, areqs, countVars, everSolved, slept, ret, img,
                   ocrVars, lastText, remoteVars, viaRemote, meterVars>>

\* the redirect GET (lines 338-341)
FollowRedirect ==
    /\ pc = "redirect"
    /\ areqs' = Append(areqs, Req("GET", urljoin(LOGIN_PAGE_URL, DataBlock(resp).Url), ""))
    /\ \E net \in {"ok", "exc"} :
         IF net = "exc"
           THEN Finish(Raise("RequestException", "redirect GET"))
           ELSE pc' = "meter_gate" /\ UNCHANGED outcome
    /\ UNCHANGED <<cfgVars, pageResp, loaded, attempt, pageVars, formVars, solveVars, postVars, dash,
                   countVars, everSolved, slept, ret, img, ocrVars, lastText, remoteVars,
                   viaRemote, meterVars>>

\* line 347
WantsMeter == login_ok /\ Truthy(METER_NO)

\* lines 347-349: select_meter_no is called, or skipped
MeterGate ==
    /\ pc = "meter_gate"
    /\ IF WantsMeter
         THEN meter_no' = METER_NO /\ pc' = "m_entry"
         ELSE pc' = "dashboard" /\ UNCHANGED meter_no
    /\ UNCHANGED <<cfgVars, pageResp, loaded, attempt, outcome, pageVars, formVars, solveVars,
                   postVars, dash, areqs, countVars, everSolved, slept, ret, img,
                   ocrVars, lastText, remoteVars, viaRemote, meter_list, listResp>>

\* a call of select_meter_no without the handler
CatchesLoginError_Nothing(exc) == FALSE

\* the class "except LoginError" catches (line 350)
CatchesLoginError(exc) == exc = "LoginError"

\* select_meter_no is back (lines 349-353)
MeterReturns ==
    /\ pc = "meter_ret"
    /\ IF ret.kind = "return"
         THEN pc' = "dashboard" /\ UNCHANGED outcome
         ELSE IF CatchesLoginError(ret.exc)
         THEN pc' = "sleep" /\ UNCHANGED outcome
         ELSE Finish(ret)
    /\ DropMeterFrame
    /\ UNCHANGED <<cfgVars, pageResp, loaded, attempt, pageVars, formVars, solveVars, postVars, dash,
                   areqs, countVars, everSolved, slept, ret, img, ocrVars, lastText,
                   remoteVars, viaRemote>>

\* the dashboard GET (line 355)
FetchDashboard ==
    /\ pc = "dashboard"
    /\ areqs' = Append(areqs, Req("GET", DASHBOARD_URL, ""))
    /\ \E net \in {"ok", "exc"} :
         IF net = "exc"
           THEN Finish(Raise("RequestException", "dashboard GET")) /\ UNCHANGED dash
           ELSE /\ \E body \in DashBodies : dash' = body
                /\ pc' = "verify"
                /\ UNCHANGED outcome
    /\ UNCHANGED <<cfgVars, pageResp, loaded, attempt, pageVars, formVars, solveVars, postVars,
                   countVars, everSolved, slept, ret, img, ocrVars, lastText, remoteVars,
                   viaRemote, meterVars>>

\* a check that wants the provisional success as well as the marker
DashboardOk_NeedsLoginOk(text) == login_ok /\ Contains(text, DASH_MARKER)

\* a check that trusts the login response instead of the dashboard
DashboardOk_TrustsStatus(text) == login_ok \/ Contains(text, DASH_MARKER)

\* "card_1" in dash.text (line 361)
DashboardOk(text) == Contains(text, DASH_MARKER)

\* lines 361-367
VerifyDashboard ==
    /\ pc = "verify"
    /\ IF DashboardOk(dash)
         THEN Finish(Return(dash))
         ELSE pc' = "sleep" /\ UNCHANGED outcome
    /\ UNCHANGED <<cfgVars, pageResp, loaded, attempt, pageVars, formVars, solveVars, postVars, dash,
                   areqs, countVars, everSolved, slept, ret, img, ocrVars, lastText,
                   remoteVars, viaRemote, meterVars>>

\* time.sleep(1), then the next iteration (lines 352-353, 368)
SleepBeforeRetry ==
    /\ pc = "sleep"
    /\ slept' = TRUE
    /\ pc' = "loop"
    /\ UNCHANGED <<cfgVars, pageResp, loaded, attempt, outcome, pageVars, formVars, solveVars,
                   postVars, dash, areqs, countVars, everSolved, ret, img, ocrVars, lastText,
                   remoteVars, viaRemote, meterVars>>

\* ================================================================== the run
Next ==
    \/ CheckCredentials
    \/ ForAttempt
    \/ RaiseExhausted
    \/ GetLoginPage
    \/ GetLoginPageFails
    \/ ParseLoginPage
    \/ FetchCaptcha
    \/ SolveCaptcha
    \/ RemoteCheckKey
    \/ RemoteUpload
    \/ RemoteLoopTest
    \/ RemoteSleep
    \/ RemotePoll
    \/ RemoteReturns
    \/ OcrInvoke
    \/ OcrReturns
    \/ ManualEntry
    \/ ManualEOF
    \/ LocalWithoutManual
    \/ SubmitCredentials
    \/ InterpretResult
    \/ FollowRedirect
    \/ MeterGate
    \/ SelectMeterEntry
    \/ MeterListRequest
    \/ MeterSwitchPost
    \/ MeterSwitchGet
    \/ MeterReturns
    \/ FetchDashboard
    \/ VerifyDashboard
    \/ SleepBeforeRetry

Spec == Init /\ [][Next]_vars

\* every call is blocking with a timeout and the run is single-threaded: a
\* step that can be taken is eventually taken
FairSpec == Spec /\ WF_vars(Next)

TypeOK ==
    /\ entry \in {"login", "ocr", "remote", "meter"}
    /\ attempt \in 0..MaxAttempts
    /\ outcome.kind \in {"none", "return", "raise"}
    /\ login_ok \in BOOLEAN
    /\ Len(posts) <= 1

\* ================================================================ the claims
Exhausted == Raise("LoginError", "Login failed after multiple attempts")
IsCode(v) == Len(v) = CODE_LEN /\ \A i \in 1..Len(v) : v[i] \in Alnum
HasMarker(text) == \E i \in 1..Len(text) : text[i] = "card_1"
AttemptOver == pc \in {"loop", "done"}

\* C1: with manual entry off, under either strategy, an attempt whose solver
\* result is not exactly 4 characters sends no credential POST.
C1_NoPostWithoutCode ==
    (entry = "login" /\ ~CAPTCHA_MANUAL /\ Len(captcha_code) # CODE_LEN)
        => posts = <<>>

\* C2: when the recognizer resolves the challenge of attempt 1 to a 4-character
\* code (manual entry off, no meter configured), the credential POST, if
\* answered, is answered with JSON status true and no redirect URL, and the
\* dashboard, if fetched, holds the marker, then attempt 1 ends with the
\* credential POST carrying that code sent and the dashboard returned.
C2_SuccessOnFirstAttempt ==
    ( /\ entry = "login" /\ attempt = 1 /\ AttemptOver
      /\ ~CAPTCHA_MANUAL /\ ~Truthy(METER_NO)
      /\ IsCode(captcha_code)
      /\ outcome.exc \notin {"RequestException", "AttributeError"}
      /\ posts # <<>> => (resp.json /\ resp.shape = "object"
                            /\ resp.status = "True" /\ resp.url = "")
      /\ Len(areqs) > 0 /\ areqs[Len(areqs)].url = DASHBOARD_URL => HasMarker(dash) )
        => ( /\ pc = "done"
             /\ outcome = Return(dash)
             /\ Len(posts) = 1
             /\ posts[1].data["Captcha"] = captcha_code )

\* C3: recognizer always empty, manual entry off, MAX_LOGIN_ATTEMPTS = N >= 1,
\* every primary login page holds the token marker, and the run is not cut
\* short by a structural or network error: the run ends with the
\* exhausted-attempts LoginError after exactly N login-page fetches and no
\* credential POST.
C3_ExhaustedWithoutPost ==
    ( /\ entry = "login" /\ pc = "done"
      /\ ~CAPTCHA_MANUAL /\ MAX_LOGIN_ATTEMPTS >= 1
      /\ ~everSolved /\ nAltGets = 0
      /\ outcome.kind = "return" \/ outcome = Exhausted )
        => ( /\ outcome = Exhausted
             /\ nPageGets = MAX_LOGIN_ATTEMPTS
             /\ nCredPosts = 0 )

\* C4: login_and_get_dashboard returns only right after a dashboard GET whose
\* body holds the marker, and returns that body; whatever the login response
\* said, a body without the marker is never returned.
C4_SuccessOnlyByMarker ==
    (entry = "login" /\ outcome.kind = "return")
        => ( /\ pc = "done"
             /\ Len(areqs) > 0
             /\ areqs[Len(areqs)] = Req("GET", DASHBOARD_URL, "")
             /\ HasMarker(dash)
             /\ outcome.val = dash )

\* a run that succeeded although the login response said status false
C4_Witness ==
    /\ entry = "login"
    /\ outcome = Return(<<"menu", "card_1">>)
    /\ resp.json /\ resp.status = "False"
    /\ ~login_ok

\* A measure of the work a run has left: the attempts not yet started, then
\* the position in the attempt, then the url, candidate pairs or polling time
\* left in the loop the run is in.
ElapsedBound == DEFAULT_TIMEOUT + POLL_SLEEP + MaxPollLatency
PairsLeft == (NumVariants - vi) * Len(configs) + (Len(configs) - ci) + 1
Position ==
    CASE pc = "start" -> 9000
      [] pc = "get_page" -> 8000 + (Len(urls) - urlIdx)
      [] pc = "page_fail" -> 7900
      [] pc = "parse" -> 7800
      [] pc = "fetch_captcha" -> 7700
      [] pc = "solve" -> 7600
      [] pc = "r_key" -> 7500
      [] pc = "r_upload" -> 7400
      [] pc = "r_while" -> 5000 + 3 * (ElapsedBound - elapsed) + 2
      [] pc = "r_sleep" -> 5000 + 3 * (ElapsedBound - elapsed) + 1
      [] pc = "r_poll" -> 5000 + 3 * (ElapsedBound - elapsed) + 3
      [] pc = "remote_ret" -> 4900
      [] pc = "o_call" -> 3000 + PairsLeft
      [] pc = "ocr_ret" -> 2900
      [] pc = "decide" -> 2800
      [] pc = "submit" -> 2700
      [] pc = "interpret" -> 2600
      [] pc = "redirect" -> 2500
      [] pc = "meter_gate" -> 2400
      [] pc = "m_entry" -> 2300
      [] pc = "m_list" -> 2200
      [] pc = "m_post" -> 2100
      [] pc = "m_get" -> 2000
      [] pc = "meter_ret" -> 1900
      [] pc = "dashboard" -> 1800
      [] pc = "verify" -> 1700
      [] pc = "sleep" -> 1600
      [] pc = "loop" -> 1
      [] OTHER -> 0
WorkLeft ==
    IF pc = "done" THEN 0
    ELSE (MAX_LOGIN_ATTEMPTS - attempt) * 10000 + Position

\* C5: every run of login_and_get_dashboard ends: each step uses up some of
\* the bounded work left and a run that is not over can take a step.  It
\* never starts more than MAX_LOGIN_ATTEMPTS attempts; it ends with the
\* returned dashboard or a raised error, and with the exhausted-attempts error
\* only when MAX_LOGIN_ATTEMPTS attempts were started and all are over.
C5_BoundedTermination ==
    /\ [][WorkLeft' < WorkLeft /\ WorkLeft' >= 0]_vars
    /\ [](pc # "done" => ENABLED Next)
    /\ [](entry = "login" => attempt <= MAX_LOGIN_ATTEMPTS)
    /\ [](entry = "login" /\ pc = "done" => outcome.kind \in {"return", "raise"})
    /\ [](entry = "login" /\ outcome = Exhausted
            => attempt = MAX_LOGIN_ATTEMPTS /\ pc = "done")

\* a run that used up its attempts, each of them ending at the dashboard
C5_Witness ==
    /\ entry = "login"
    /\ pc = "done"
    /\ outcome = Exhausted
    /\ attempt = MaxAttempts
    /\ slept
    /\ nCredPosts = MaxAttempts

\* a solver function has returned
OcrReturned == pc = "ocr_ret" \/ (entry = "ocr" /\ pc = "done")
RemoteReturned ==
    (pc = "remote_ret" \/ (entry = "remote" /\ pc = "done")) /\ ret.kind = "return"

\* C6: a value ocr_captcha or solve_captcha_2captcha returns is empty or has
\* exactly 4 characters, all of [0-9A-Za-z]; when the answer it returns on
\* does not hold exactly 4 such characters, the value is empty.
C6_ReturnsCodeOrEmpty ==
    (OcrReturned \/ RemoteReturned)
        => /\ ret.kind = "return"
           /\ ret.val = <<>> \/ IsCode(ret.val)
           /\ AlnumCount(lastText) # CODE_LEN => ret.val = <<>>

\* the service answered a text with some, but not 4, characters of
\* [0-9A-Za-z] and the adapter returned the empty string
C6_Witness ==
    /\ entry = "remote"
    /\ pc = "done"
    /\ ret = Return(<<>>)
    /\ AlnumCount(lastText) \notin {0, CODE_LEN}

\* the order of the pairs: the k-th is variant (k-1) \div 4 + 1 under the
\* profile (k-1) % 4 + 1 of word, line, block, character
ProfileOrder == <<"psm 8", "psm 7", "psm 6", "psm 10">>
KthPair(k) ==
    [variant |-> [of |-> img.id, idx |-> ((k - 1) \div Len(ProfileOrder)) + 1],
     config |-> ProfileOrder[((k - 1) % Len(ProfileOrder)) + 1]]

\* C7: the engine is invoked on the pairs in the fixed order, each at most
\* once; ocr_captcha returns the normalized text of the first pair whose
\* normalized text has 4 characters and invokes the engine on no later pair;
\* it returns the empty string only after invoking it on every pair once.
C7_FirstAcceptedPair ==
    (entry = "ocr" \/ pc \in {"o_call", "ocr_ret"}) =>
        /\ \A k \in 1..Len(calls) :
             /\ calls[k].variant = KthPair(k).variant
             /\ calls[k].config = KthPair(k).config
        /\ \A k \in 1..(Len(calls) - 1) : calls[k].four = <<>>
        /\ pc = "o_call" => \A k \in 1..Len(calls) : calls[k].four = <<>>
        /\ OcrReturned =>
             /\ Len(calls) >= 1
             /\ IF calls[Len(calls)].four # <<>>
                  THEN /\ IsCode(ret.val)
                       /\ ret.val = SelectSeq(calls[Len(calls)].four,
                                              LAMBDA ch : ch \in Alnum)
                  ELSE /\ ret.val = <<>>
                       /\ Len(calls) = NumVariants * Len(ProfileOrder)

\* ocr_captcha returned a code after more than one pair and before the last
C7_Witness ==
    /\ entry = "ocr"
    /\ pc = "done"
    /\ IsCode(ret.val)
    /\ Len(calls) > 1
    /\ Len(calls) < NumVariants * Len(ProfileOrder)

\* C8: under the remote-first strategy an exception of the remote adapter
\* does not end the run: the attempt goes on with ocr_captcha on the same
\* challenge image, and what ocr_captcha returns is the attempt's code.
C8_RemoteFailureFallsBack ==
    [][ /\ (entry = "login" /\ pc = "remote_ret" /\ ret.kind = "raise")
            => /\ pc' = "o_call"
               /\ img' = captcha_img
               /\ captcha_img' = captcha_img
               /\ areqs' = areqs
               /\ attempt' = attempt
               /\ outcome' = outcome
        /\ (entry = "login" /\ pc = "ocr_ret" /\ viaRemote)
            => /\ captcha_code' = ret.val
               /\ img = captcha_img
               /\ attempt' = attempt
               /\ outcome' = outcome ]_vars

\* the adapter failed after the upload and ocr_captcha read a code off the
\* same image
C8_Witness ==
    /\ entry = "login"
    /\ USE_2CAPTCHA
    /\ CAPTCHA_2CAPTCHA_API_KEY # ""
    /\ pc = "ocr_ret"
    /\ viaRemote
    /\ img = captcha_img
    /\ IsCode(ret.val)

\* C9: with remote solving selected and no API key, the solve step ends the
\* run with the configuration error instead of giving a code or an empty
\* result to the attempt.
C9_MissingKeySurfaces ==
    (/\ entry = "login"
     /\ USE_2CAPTCHA
     /\ CAPTCHA_2CAPTCHA_API_KEY = ""
     /\ viaRemote
     /\ pc \notin {"r_key", "remote_ret"})
        => /\ pc = "done"
           /\ outcome = Raise("LoginError", "2Captcha API key not set")

\* the meter-list answer carries a payload: no transport or HTTP error, a
\* body that parses, a JSON object
HasPayload ==
    /\ listResp.net = "ok"
    /\ listResp.http < HTTP_ERROR
    /\ listResp.fmt \in {"json", "jsdate"}
    /\ listResp.payload.kind \in {"object", "object_nolist"}

\* the configured identifier, as a string, is the MeterNo, as a string, of an
\* entry nested under data[].UserMeter_GroupbyMeter
ListedInPayload ==
    \E i \in 1..Len(listResp.payload.data) :
        LET item == listResp.payload.data[i] IN
        /\ item.shape = "group"
        /\ item.MeterNo.type # "none"
        /\ str(item.MeterNo) = str(meter_no)

MeterNotFound == Raise("LoginError", "MeterNo not found in account list")

\* C10: select_meter_no, called with a configured identifier and answered a
\* payload, succeeds exactly when the identifier is listed in the payload (a
\* failed switch request aside), then having sent the list POST, the switch
\* POST and the switch GET in that order; when the identifier is not listed
\* it raises the meter-not-found error, having sent neither switch request.
C10_SucceedsWhenListed ==
    (entry = "meter" /\ pc = "done" /\ Truthy(meter_no) /\ HasPayload) =>
        IF ListedInPayload
          THEN /\ outcome.kind = "return" \/ outcome.exc = "RequestException"
               /\ outcome.kind = "return" =>
                    areqs = << Req("POST", METER_LIST_URL, ""),
                               Req("POST", UID_METER_URL, str(meter_no)),
                               Req("GET", UID_METER_URL, str(meter_no)) >>
          ELSE /\ outcome = MeterNotFound
               /\ areqs = << Req("POST", METER_LIST_URL, "") >>

\* a request for one of the two login URLs
IsPageGet(r) == r.method = "GET" /\ r.url \in {"/hvcs/", "/hvcs/SignOn/Module/Login"}

\* the page lacks the form, the form's action or the token's value
Deficient(page) == ~page.form \/ page.action = "" \/ page.token = ""

\* C11: once a loaded login page lacks the form, its action or a non-empty
\* token, the run is over with a LoginError: the attempt has sent nothing but
\* the login-page GETs (no CAPTCHA fetch, no credential POST), and a run that
\* is over takes no further step (no further attempt).
C11_StructuralErrorEndsRun ==
    /\ [](( /\ entry = "login"
            /\ html # NoPage
            /\ Deficient(html)
            /\ pc # "parse" )
          => /\ pc = "done"
             /\ outcome.kind = "raise"
             /\ outcome.exc = "LoginError"
             /\ \A i \in 1..Len(areqs) : IsPageGet(areqs[i])
             /\ posts = <<>>)
    /\ [][pc # "done"]_vars

\* the page has the form and its action but no token, in the first of two
\* attempts
C11_Witness ==
    /\ entry = "login"
    /\ pc = "done"
    /\ html.form
    /\ html.action # ""
    /\ html.token = ""
    /\ outcome.exc = "LoginError"
    /\ attempt = 1
    /\ MAX_LOGIN_ATTEMPTS = 2

\* the answer is a page (no exception, HTTP status below 400) whose text
\* contains the anti-forgery marker
UsablePage(a) ==
    /\ a.net = "ok"
    /\ a.http < 400
    /\ \E i \in 1..Len(a.page.text) : a.page.text[i] = "__RequestVerificationToken"

PrimaryGet == Req("GET", "/hvcs/", "")
SecondaryGet == Req("GET", "/hvcs/SignOn/Module/Login", "")

C13_NetworkFailureEndsRun ==
    (entry = "login" /\ (pageResp.net = "exc" \/ outcome.exc = "RequestException"))
        => /\ pc = "done"
           /\ outcome = Raise("RequestException", outcome.msg)

\* C14: an attempt that ended without success has slept the fixed interval
\* when the loop turns to the next attempt.
C14_SleepBeforeNextAttempt ==
    (entry = "login" /\ pc = "loop" /\ attempt >= 1) => slept

\* the nested status of a JSON answer: missing unless the body is an object
\* whose data is an object
NestedStatus(r) == IF r.shape = "object" THEN r.status ELSE "None"
NestedUrl(r) == IF r.shape = "object" THEN r.url ELSE ""

\* the request sent right after the credential POST, if any
IsCredPost(r) == r.method = "POST" /\ r.url = action_url
AfterCredPost ==
    { areqs[k + 1] : k \in { j \in 1..(Len(areqs) - 1) : IsCredPost(areqs[j]) } }

\* C15: once the answer to the credential POST is interpreted: a JSON answer
\* whose status is false, missing or unparseable gives no provisional success
\* and no exception; a JSON answer with status true gives provisional success,
\* with the redirect GET sent next when there is a redirect URL and no
\* redirect GET otherwise; any other answer gives provisional success exactly
\* when its HTTP status is below 400.
C15_InterpretsResponse ==
    (entry = "login" /\ resp # NoAnswer /\ pc # "interpret") =>
        IF ~resp.json THEN login_ok = (resp.http < 400)
        ELSE IF NestedStatus(resp) # "True"
          THEN /\ ~login_ok
               /\ outcome.exc \notin {"AttributeError", "ValueError"}
               /\ AfterCredPost \subseteq {Req("GET", DASHBOARD_URL, "")}
        ELSE IF NestedUrl(resp) # ""
          THEN /\ login_ok
               /\ pc = "redirect" \/ AfterCredPost = {Req("GET", NestedUrl(resp), "")}
          ELSE /\ login_ok
               /\ AfterCredPost \subseteq
                    {Req("GET", DASHBOARD_URL, ""), Req("POST", METER_LIST_URL, "")}

\* C16: with manual override on, a 4-character code of the solver is the code
\* of the attempt's credential POST: the attempt does not end without that
\* POST.
C16_SolvedCodeNotPrompted ==
    (entry = "login" /\ CAPTCHA_MANUAL /\ ret.kind = "return" /\ IsCode(ret.val)) =>
        /\ pc = "submit" => captcha_code = ret.val
        /\ pc = "loop" => /\ posts # <<>>
                          /\ posts[1].data["Captcha"] = ret.val

\* solve_captcha_2captcha is running or has just ended
RemoteEnded == pc = "remote_ret" \/ (entry = "remote" /\ pc = "done")
Polling == pc \in {"r_while", "r_sleep", "r_poll"}

\* the service's answer carries a status: no exception, no HTTP error, JSON
HasStatus(a) == a.net = "ok" /\ a.http < 400 /\ a.json

RemoteTimeout == Raise("LoginError", "2Captcha timeout")

\* C17: an upload answer without success status raises before any poll; a
\* "not ready" poll answer keeps the adapter polling (or, the budget used up,
\* ends it with the timeout error); a poll answer with success status ends it
\* with the normalized 4-character code or the empty string; any other poll
\* answer ends it at once with a LoginError.  Within the budget the loop
\* test leads to the sleep and the next poll.
C17_PollAnswers ==
    /\ []((HasStatus(svcResp) /\ nPolls = 0 /\ svcResp.status # 1)
            => /\ RemoteEnded
               /\ ret = Raise("LoginError", "2Captcha upload failed"))
    /\ []((HasStatus(svcResp) /\ nPolls >= 1 /\ svcResp.status = 1)
            => /\ RemoteEnded
               /\ ret.kind = "return"
               /\ ret.val = IF AlnumCount(svcResp.request) = 4
                              THEN SelectSeq(svcResp.request, LAMBDA ch : ch \in Alnum)
                              ELSE <<>>)
    /\ []((HasStatus(svcResp) /\ nPolls >= 1 /\ svcResp.status # 1
             /\ svcResp.request = <<"CAPCHA_NOT_READY">>)
            => \/ Polling
               \/ RemoteEnded /\ ret = RemoteTimeout /\ elapsed >= 120)
    /\ []((HasStatus(svcResp) /\ nPolls >= 1 /\ svcResp.status # 1
             /\ svcResp.request # <<"CAPCHA_NOT_READY">>)
            => /\ RemoteEnded
               /\ ret = Raise("LoginError", "2Captcha error"))
    /\ [][ /\ (pc = "r_while" /\ elapsed < 120) => pc' = "r_sleep"
           /\ pc = "r_sleep" => (pc' = "r_poll" /\ nPolls' = nPolls)
           /\ pc = "r_poll" => nPolls' = nPolls + 1
           /\ RemoteEnded => nPolls' \in {nPolls, 0} ]_vars

\* the service answered "not ready" and then an error status
C17_Witness ==
    /\ entry = "remote"
    /\ pc = "done"
    /\ nPolls = 2
    /\ svcResp.request = SVC_ERROR
    /\ outcome = Raise("LoginError", "2Captcha error")

\* C18: the polling loop of solve_captcha_2captcha ends: every pass uses up
\* some of the bounded work left and can take its next step; each poll
\* follows a sleep of 5 units, a pass starts only while less than 120 units
\* have elapsed, so there are at most 24 polls; when the budget is used up
\* with the last answer "not ready", the adapter raises the timeout error.
C18_PollingTerminates ==
    /\ [][Polling => (WorkLeft' < WorkLeft /\ WorkLeft' >= 0)]_vars
    /\ [](Polling => ENABLED Next)
    /\ []((Polling \/ RemoteEnded) =>
            /\ nSleeps = nPolls + (IF pc = "r_poll" THEN 1 ELSE 0)
            /\ elapsed >= 5 * nSleeps
            /\ nPolls <= 120 \div 5
            /\ pc \in {"r_sleep", "r_poll"} => elapsed - 5 * (nSleeps - nPolls) < 120)
    /\ []((RemoteEnded /\ ret = RemoteTimeout) =>
            /\ elapsed >= 120
            /\ nPolls >= 1
            /\ svcResp.request = <<"CAPCHA_NOT_READY">>)
    /\ []((RemoteEnded /\ nPolls >= 1 /\ HasStatus(svcResp) /\ svcResp.status # 1
             /\ svcResp.request = <<"CAPCHA_NOT_READY">>)
            => ret = RemoteTimeout)

\* 24 polls, all answered "not ready" at once, then the timeout error
C18_Witness ==
    /\ entry = "remote"
    /\ pc = "done"
    /\ outcome = RemoteTimeout
    /\ nPolls = 24
    /\ elapsed = 120

IsMeterRequest(r) == r.url \in {METER_LIST_URL, UID_METER_URL}
MeterErrors ==
    { MeterNotFound,
      Raise("LoginError", "Meter list request failed"),
      Raise("LoginError", "Meter list response is not JSON") }

\* C20: select_meter_no is called only with a meter configured and login_ok
\* true; when it raises a LoginError the run is not over: the attempt goes to
\* the sleep with no dashboard GET, and the loop then starts the next
\* attempt at the login page, or ends with the exhausted-attempts error when
\* this was the last attempt.
C20_MeterErrorRetries ==
    /\ []((entry = "login"
             /\ (pc \in {"m_entry", "m_list", "m_post", "m_get", "meter_ret"}
                   \/ \E i \in 1..Len(areqs) : IsMeterRequest(areqs[i])))
            => (login_ok /\ Truthy(METER_NO)))
    /\ []((entry = "login" /\ pc \in {"sleep", "loop"} /\ ret.kind = "raise")
            => /\ ret \in MeterErrors
               /\ outcome = Pending
               /\ \A i \in 1..Len(areqs) : areqs[i] # Req("GET", DASHBOARD_URL, ""))
    /\ [][ entry = "login" =>
             /\ (pc = "meter_ret" /\ ret \in MeterErrors)
                  => /\ pc' = "sleep"
                     /\ outcome' = outcome
                     /\ attempt' = attempt
                     /\ areqs' = areqs
             /\ (pc = "sleep" /\ ret.kind = "raise") => (pc' = "loop" /\ slept')
             /\ (pc = "loop" /\ ret.kind = "raise") =>
                  IF attempt < MAX_LOGIN_ATTEMPTS
                    THEN /\ pc' = "get_page"
                         /\ attempt' = attempt + 1
                         /\ areqs' = <<>>
                         /\ urlIdx' = 1
                    ELSE pc' = "done" /\ outcome' = Exhausted ]_vars

\* the meter was not in the list in the first of two attempts
C20_Witness ==
    /\ entry = "login"
    /\ pc = "loop"
    /\ slept
    /\ ret = MeterNotFound
    /\ attempt = 1
    /\ MAX_LOGIN_ATTEMPTS = 2

\* the keys line 297 sets in the payload, whatever the form's inputs are
Overridden == {"__RequestVerificationToken", "UserName", "UserPwd", "Captcha"}

\* the GET of the challenge image the page points to
ChallengeGet(page) ==
    Req("GET", IF page.captcha_src = "" THEN "/hvcs/Other/Module/Chptcha"
               ELSE page.captcha_src, "")

\* C21: an attempt sends at most one credential POST.  A credential POST comes
\* after the attempt's own login-page GET and, after that, its own GET of the
\* challenge image; it carries the token of the page this attempt loaded, as
\* form field and as header, that page's hidden inputs, and the code that was
\* obtained for the challenge this attempt fetched: nothing of it is left
\* from an earlier attempt.
C21_FreshSubmission ==
    entry = "login" =>
        /\ Len(posts) <= 1
        /\ nCredPosts <= attempt
        /\ posts # <<>> =>
             /\ loaded # NoPage
             /\ \E i, j, k \in 1..Len(areqs) :
                  /\ i < j /\ j < k
                  /\ IsPageGet(areqs[i])
                  /\ areqs[j] = ChallengeGet(loaded)
                  /\ areqs[k] = Req("POST", posts[1].url, "")
             /\ loaded.token # ""
             /\ posts[1].data["__RequestVerificationToken"] = loaded.token
             /\ posts[1].header = loaded.token
             /\ DOMAIN posts[1].data = DOMAIN loaded.fields \cup Overridden
             /\ \A f \in DOMAIN loaded.fields \ Overridden :
                  posts[1].data[f] = loaded.fields[f]
             /\ captcha_img.id = attempt
             /\ codeFor = attempt
             /\ posts[1].data["Captcha"] = captcha_code

\* the second attempt has sent its POST with the token and the hidden inputs
\* of the second page, after a first attempt that had sent its own
C21_Witness ==
    /\ entry = "login"
    /\ attempt = 2
    /\ nCredPosts = 2
    /\ Len(posts) = 1
    /\ posts[1].header = "t2"
    /\ "ReturnUrl" \notin DOMAIN posts[1].data
    /\ Len(captcha_code) = 4

====
